---------------------------- MODULE Spec2Model ----------------------------
(***************************************************************************)
(* A model of the clinical component identifier:                           *)
(*   - backend/app.py       the /api/identify request handler and its      *)
(*                          completion response parser,                    *)
(*   - backend/prepare_data.py  the training example builder, the          *)
(*                          labelling of text spans, the reading of the    *)
(*                          CSV file and the train/validation split,       *)
(*   - backend/fine_tune.py the fine-tuning job driver.                    *)
(*                                                                         *)
(* Text is modelled character by character: a text is a sequence of        *)
(* one-character strings.  Python values (the results of json.loads) are   *)
(* records with the four fields k (kind), n (number, in hundredths),       *)
(* s (the characters of a str) and v (the items of a list, or the items    *)
(* of a dict in insertion order, each a key with its value).               *)
(***************************************************************************)
EXTENDS Integers, Sequences, FiniteSets, TLC

(***************************************************************************)
(* Characters and texts                                                    *)
(***************************************************************************)
NL == "\n"
QUOTE == "\""
BSLASH == "\\"
\* the backtick character (the module's lexer admits none inside a string)
BT == "BACKTICK"

Whitespace == {" ", NL}

DigitChars == <<"0", "1", "2", "3", "4", "5", "6", "7", "8", "9">>

IsDigit(c) == \E i \in 1..10 : DigitChars[i] = c

DigitVal(c) == (CHOOSE i \in 1..10 : DigitChars[i] = c) - 1

\* text[i:] and text[i:j] of Python, 0-based, for 0 <= i <= j <= len(text)
Slice(t, i, j) == SubSeq(t, i + 1, j)

SliceFrom(t, i) == SubSeq(t, i + 1, Len(t))

\* text.startswith(p, i)
StartsWithAt(t, p, i) ==
    /\ i + Len(p) <= Len(t)
    /\ \A j \in 1..Len(p) : t[i + j] = p[j]

StartsWith(t, p) == StartsWithAt(t, p, 0)

\* text.find(p, i): the 0-based index of the first occurrence at or after i, -1 if none
Find(t, p, i) ==
    LET hits == {j \in i..(Len(t) - Len(p)) : StartsWithAt(t, p, j)}
    IN  IF hits = {} THEN -1 ELSE CHOOSE j \in hits : \A h \in hits : j <= h

\* str.strip(): leading and trailing whitespace removed
Strip(t) ==
    LET keep == {i \in 1..Len(t) : t[i] \notin Whitespace}
    IN  IF keep = {} THEN <<>>
        ELSE LET lo == CHOOSE i \in keep : \A j \in keep : i <= j
                 hi == CHOOSE i \in keep : \A j \in keep : i >= j
             IN  SubSeq(t, lo, hi)

(***************************************************************************)
(* Python values                                                           *)
(***************************************************************************)
PyNone == [k |-> "null", n |-> 0, s |-> <<>>, v |-> <<>>]

\* a local variable that no statement has assigned yet
Unbound == [k |-> "unbound", n |-> 0, s |-> <<>>, v |-> <<>>]

PyBool(b) == [k |-> "bool", n |-> IF b THEN 1 ELSE 0, s |-> <<>>, v |-> <<>>]

\* a number, held in hundredths (0.95 is 95, 1 is 100)
PyNum(h) == [k |-> "num", n |-> h, s |-> <<>>, v |-> <<>>]

PyStr(chars) == [k |-> "str", n |-> 0, s |-> chars, v |-> <<>>]

PyList(items) == [k |-> "list", n |-> 0, s |-> <<>>, v |-> items]

\* one key of a dict with its value
PyItem(key, val) == [k |-> "item", n |-> 0, s |-> key, v |-> <<val>>]

\* a dict: its items in insertion order, keys distinct
PyDict(items) == [k |-> "dict", n |-> 0, s |-> <<>>, v |-> items]

HasKey(d, key) == \E i \in 1..Len(d.v) : d.v[i].s = key

\* d[key] for a key the dict has
GetItem(d, key) == d.v[CHOOSE i \in 1..Len(d.v) : d.v[i].s = key].v[1]

\* d[key] = val: an existing key keeps its place, a new key goes last
SetItem(d, key, val) ==
    IF HasKey(d, key)
    THEN PyDict([i \in 1..Len(d.v) |->
                    IF d.v[i].s = key THEN PyItem(key, val) ELSE d.v[i]])
    ELSE PyDict(Append(d.v, PyItem(key, val)))

\* len(x) for the kinds that have one
PyLen(x) == IF x.k = "str" THEN Len(x.s) ELSE Len(x.v)

\* bool(x): None, False, 0, "", [] and {} are falsy
Truthy(x) ==
    CASE x.k = "null" -> FALSE
      [] x.k = "bool" -> x.n = 1
      [] x.k = "num"  -> x.n # 0
      [] x.k = "str"  -> x.s # <<>>
      [] OTHER        -> x.v # <<>>

(***************************************************************************)
(* json.dumps, as create_training_example calls it (default separators     *)
(* ", " and ": ", ensure_ascii): the text of a Python value                *)
(***************************************************************************)
RECURSIVE IntDigits(_)
IntDigits(m) ==
    IF m < 10 THEN <<DigitChars[m + 1]>>
    ELSE IntDigits(m \div 10) \o <<DigitChars[(m % 10) + 1]>>

\* repr of a float with at most two decimals: 0.95, 0.9, 1.0
FloatRepr(h) ==
    LET f == h % 100
    IN  IntDigits(h \div 100) \o <<".">> \o
        (IF f % 10 = 0 THEN <<DigitChars[(f \div 10) + 1]>>
         ELSE <<DigitChars[(f \div 10) + 1], DigitChars[(f % 10) + 1]>>)

\* a variant that escapes nothing
EscapeCharVerbatim(c) == <<c>>

EscapeChar(c) ==
    CASE c = QUOTE  -> <<BSLASH, QUOTE>>
      [] c = BSLASH -> <<BSLASH, BSLASH>>
      [] c = NL     -> <<BSLASH, "n">>
      [] OTHER      -> <<c>>

RECURSIVE EscapeChars(_)
\* each character escaped, in order (the halves of a long text one by one)
EscapeChars(chars) ==
    IF chars = <<>> THEN <<>>
    ELSE IF Len(chars) = 1 THEN EscapeChar(chars[1])
    ELSE LET m == Len(chars) \div 2
         IN  EscapeChars(SubSeq(chars, 1, m)) \o EscapeChars(SubSeq(chars, m + 1, Len(chars)))

EncodeString(chars) == <<QUOTE>> \o EscapeChars(chars) \o <<QUOTE>>

RECURSIVE Dumps(_)
RECURSIVE DumpsItems(_, _)
\* the items of a list or dict from position i on, joined by ", "
DumpsItems(x, i) ==
    IF i > Len(x.v) THEN <<>>
    ELSE (IF i > 1 THEN <<",", " ">> ELSE <<>>)
         \o (IF x.k = "dict"
             THEN EncodeString(x.v[i].s) \o <<":", " ">> \o Dumps(x.v[i].v[1])
             ELSE Dumps(x.v[i]))
         \o DumpsItems(x, i + 1)

Dumps(x) ==
    CASE x.k = "null" -> <<"n", "u", "l", "l">>
      [] x.k = "bool" -> IF x.n = 1 THEN <<"t", "r", "u", "e">>
                         ELSE <<"f", "a", "l", "s", "e">>
      [] x.k = "num"  -> FloatRepr(x.n)
      [] x.k = "str"  -> EncodeString(x.s)
      [] x.k = "list" -> <<"[">> \o DumpsItems(x, 1) \o <<"]">>
      [] x.k = "dict" -> <<"{">> \o DumpsItems(x, 1) \o <<"}">>

(***************************************************************************)
(* json.loads: the decoder of the standard library, on the characters the  *)
(* model uses.  A scan result is [ok, val, end]: whether a value was read, *)
(* the value, and the 0-based index after it.  ok = FALSE is               *)
(* json.JSONDecodeError.                                                   *)
(***************************************************************************)
ScanFail == [ok |-> FALSE, val |-> PyNone, end |-> 0]

ScanOk(val, end) == [ok |-> TRUE, val |-> val, end |-> end]

\* the character at 0-based index i, "" past the end (s[i:i+1])
CharAt(t, i) == IF i < Len(t) THEN t[i + 1] ELSE ""

RECURSIVE SkipWs(_, _)
SkipWs(t, i) == IF CharAt(t, i) \in Whitespace THEN SkipWs(t, i + 1) ELSE i

RECURSIVE DigitsEnd(_, _)
DigitsEnd(t, i) == IF IsDigit(CharAt(t, i)) THEN DigitsEnd(t, i + 1) ELSE i

RECURSIVE DigitsValue(_, _, _)
\* the number the digits t[i:j] spell
DigitsValue(t, i, j) ==
    IF i >= j THEN 0
    ELSE DigitsValue(t, i, j - 1) * 10 + DigitVal(t[j])

\* (0|[1-9]\d*)(\.\d+)? at i, which holds a digit; the fraction is kept
\* to two digits
ScanNumber(t, i) ==
    LET intEnd  == IF t[i + 1] = "0" THEN i + 1 ELSE DigitsEnd(t, i)
        hasFrac == CharAt(t, intEnd) = "." /\ IsDigit(CharAt(t, intEnd + 1))
        fracEnd == IF hasFrac THEN DigitsEnd(t, intEnd + 1) ELSE intEnd
        d1      == IF hasFrac THEN DigitVal(t[intEnd + 2]) ELSE 0
        d2      == IF hasFrac /\ fracEnd > intEnd + 2
                   THEN DigitVal(t[intEnd + 3]) ELSE 0
    IN  ScanOk(PyNum(DigitsValue(t, i, intEnd) * 100 + d1 * 10 + d2), fracEnd)

RECURSIVE ScanString(_, _, _)
\* the string whose opening quote ends at i; acc is what was read of it
ScanString(t, i, acc) ==
    LET c == CharAt(t, i)
        e == CharAt(t, i + 1)
    IN  CASE c = ""     -> ScanFail   \* unterminated string
          [] c = QUOTE  -> ScanOk(PyStr(acc), i + 1)
          [] c = NL     -> ScanFail   \* a control character, strict mode
          [] c = BSLASH ->
                CASE e \in {QUOTE, BSLASH, "/"} -> ScanString(t, i + 2, Append(acc, e))
                  [] e = "n"                    -> ScanString(t, i + 2, Append(acc, NL))
                  [] OTHER                      -> ScanFail
          [] OTHER      -> ScanString(t, i + 1, Append(acc, c))

RECURSIVE ScanOnce(_, _)
RECURSIVE ScanArrayItems(_, _, _)
RECURSIVE ScanObjectMembers(_, _, _)

\* after a value of an array: "," and the next value, or "]"
ScanArrayItems(t, i, acc) ==
    LET r == ScanOnce(t, i)
        j == SkipWs(t, r.end)
        c == CharAt(t, j)
    IN  IF ~r.ok THEN ScanFail
        ELSE CASE c = "]" -> ScanOk(PyList(Append(acc, r.val)), j + 1)
               [] c = "," -> ScanArrayItems(t, SkipWs(t, j + 1), Append(acc, r.val))
               [] OTHER   -> ScanFail

ScanArray(t, i) ==
    LET j == SkipWs(t, i)
    IN  IF CharAt(t, j) = "]" THEN ScanOk(PyList(<<>>), j + 1)
        ELSE ScanArrayItems(t, j, <<>>)

\* a member of an object, i being the index after the key's opening quote
ScanObjectMembers(t, i, acc) ==
    LET key   == ScanString(t, i, <<>>)
        colon == SkipWs(t, key.end)
        r     == ScanOnce(t, SkipWs(t, colon + 1))
        j     == SkipWs(t, r.end)
        c     == CharAt(t, j)
        next  == SkipWs(t, j + 1)
        dict  == SetItem(acc, key.val.s, r.val)
    IN  IF ~key.ok \/ CharAt(t, colon) # ":" THEN ScanFail
        ELSE IF ~r.ok THEN ScanFail
        ELSE CASE c = "}" -> ScanOk(dict, j + 1)
               [] c = "," -> IF CharAt(t, next) = QUOTE
                             THEN ScanObjectMembers(t, next + 1, dict)
                             ELSE ScanFail
               [] OTHER   -> ScanFail

ScanObject(t, i) ==
    LET j == SkipWs(t, i)
        c == CharAt(t, j)
    IN  CASE c = "}"   -> ScanOk(PyDict(<<>>), j + 1)
          [] c = QUOTE -> ScanObjectMembers(t, j + 1, PyDict(<<>>))
          [] OTHER     -> ScanFail

ScanOnce(t, i) ==
    LET c == CharAt(t, i)
    IN  CASE c = QUOTE -> ScanString(t, i + 1, <<>>)
          [] c = "{"   -> ScanObject(t, i + 1)
          [] c = "["   -> ScanArray(t, i + 1)
          [] c = "n" /\ StartsWithAt(t, <<"n", "u", "l", "l">>, i) ->
                ScanOk(PyNone, i + 4)
          [] c = "t" /\ StartsWithAt(t, <<"t", "r", "u", "e">>, i) ->
                ScanOk(PyBool(TRUE), i + 4)
          [] c = "f" /\ StartsWithAt(t, <<"f", "a", "l", "s", "e">>, i) ->
                ScanOk(PyBool(FALSE), i + 5)
          [] IsDigit(c) -> ScanNumber(t, i)
          [] OTHER      -> ScanFail

\* json.loads(t): the whole text must be one value between whitespace
Loads(t) ==
    LET r == ScanOnce(t, SkipWs(t, 0))
    IN  IF r.ok /\ SkipWs(t, r.end) = Len(t) THEN r ELSE ScanFail

(***************************************************************************)
(* The completion response parser (app.py, identify_components)            *)
(***************************************************************************)
FENCE == <<BT, BT, BT>>

JsonTag == <<"j", "s", "o", "n">>

KeyText == <<"t", "e", "x", "t">>

KeyComponents == <<"c", "o", "m", "p", "o", "n", "e", "n", "t", "s">>

KeyComponentId == <<"c", "o", "m", "p", "o", "n", "e", "n", "t", "_", "i", "d">>

\* t.split(FENCE)[1] for a text that starts with the fence: what lies
\* between the opening fence and the next one (or the end of the text)
SplitSecond(t) ==
    LET close == Find(t, FENCE, Len(FENCE))
    IN  Slice(t, Len(FENCE), IF close = -1 THEN Len(t) ELSE close)

\* "Remove markdown code blocks if present": the text json.loads is given
StripFence(t) ==
    IF StartsWith(t, FENCE)
    THEN LET seg == SplitSecond(t)
         IN  IF StartsWith(seg, JsonTag) THEN SliceFrom(seg, Len(JsonTag)) ELSE seg
    ELSE t

\* re.search(r'\[.*\]', t, re.DOTALL): from the first "[" to the last "]"
RegexSearch(t) ==
    LET opens  == {i \in 1..Len(t) : t[i] = "["}
        closes == {i \in 1..Len(t) : t[i] = "]"}
        first  == CHOOSE i \in opens : \A j \in opens : i <= j
        last   == CHOOSE i \in closes : \A j \in closes : i >= j
    IN  IF opens # {} /\ closes # {} /\ first < last
        THEN [found |-> TRUE, group |-> SubSeq(t, first, last)]
        ELSE [found |-> FALSE, group |-> <<>>]

\* a variant that takes the components key only, and wraps no object
UnwrapKeyOnly(val) ==
    IF val.k = "dict"
    THEN IF HasKey(val, KeyComponents) THEN GetItem(val, KeyComponents)
         ELSE PyList(<<>>)
    ELSE val

\* "if isinstance(components, dict):
\*      components = components.get("components", [components])"
Unwrap(val) ==
    IF val.k = "dict"
    THEN IF HasKey(val, KeyComponents) THEN GetItem(val, KeyComponents)
         ELSE PyList(<<val>>)
    ELSE val

\* a variant in which the fallback is given the completion text itself
FallbackTextRaw(raw) == raw

\* the text the regular expression of the except branch is given: the
\* variable result_text, which the fence removal has reassigned by then
FallbackText(raw) == StripFence(raw)

\* The try/except of "Parse JSON response" on the stripped completion text
\* raw: [raised, components].  raised is an exception leaving the block
\* (the json.loads of the except branch is not guarded).
ParseCompletion(raw) ==
    LET direct == Loads(StripFence(raw))
        match  == RegexSearch(FallbackText(raw))
        second == Loads(match.group)
    IN  IF direct.ok THEN [raised |-> FALSE, components |-> Unwrap(direct.val)]
        ELSE IF ~match.found THEN [raised |-> FALSE, components |-> PyList(<<>>)]
        ELSE IF second.ok THEN [raised |-> FALSE, components |-> second.val]
        ELSE [raised |-> TRUE, components |-> PyNone]

\* a variant that numbers from zero
FormatIdZeroBased(i) ==
    <<"c", "o", "m", "p", "_",
      DigitChars[(((i - 1) \div 100) % 10) + 1],
      DigitChars[(((i - 1) \div 10) % 10) + 1],
      DigitChars[((i - 1) % 10) + 1]>>

\* f"comp_{i:03d}"
FormatId(i) ==
    LET digits == IntDigits(i)
        pad    == [j \in 1..(3 - Len(digits)) |-> "0"]
    IN  <<"c", "o", "m", "p", "_">> \o pad \o digits

(***************************************************************************)
(* Request validation (app.py lines 93-100)                                *)
(***************************************************************************)
\* "text" in data, for the kinds of value that support "in"
Contains(d, key) ==
    CASE d.k = "dict" -> HasKey(d, key)
      [] d.k = "list" -> \E i \in 1..Len(d.v) : d.v[i] = PyStr(key)
      [] d.k = "str"  -> Find(d.s, key, 0) # -1
      [] OTHER        -> FALSE

\* What lines 95-100 do with the decoded body d: reject (400, with the
\* message), raise (an exception, handled at line 153), or accept (the
\* stripped text).
Validate(d) ==
    LET reject(m) == [kind |-> "reject", msg |-> m, text |-> <<>>]
        raise(m)  == [kind |-> "raise", msg |-> m, text |-> <<>>]
    IN  IF ~Truthy(d) THEN reject("Text field is required")
        ELSE IF d.k \in {"num", "bool"} THEN raise("TypeError")
        ELSE IF ~Contains(d, KeyText) THEN reject("Text field is required")
        ELSE IF d.k # "dict" THEN raise("TypeError")
        ELSE IF GetItem(d, KeyText).k # "str" THEN raise("AttributeError")
        ELSE IF Strip(GetItem(d, KeyText).s) = <<>>
             THEN reject("Text cannot be empty")
        ELSE [kind |-> "accept", msg |-> "", text |-> Strip(GetItem(d, KeyText).s)]

(***************************************************************************)
(* The training example builder (prepare_data.py, create_training_example) *)
(***************************************************************************)
\* the fixed instruction text, which no code looks into: held as one item
SystemMessage == <<"You are an expert clinical documentation analyst. ...">>

UserMessage(t) == <<"Identify components in this clinical text:", NL, NL>> \o t

Message(role, content) == [role |-> role, content |-> content]

CreateTrainingExample(t, comps) ==
    << Message("system", SystemMessage),
       Message("user", UserMessage(t)),
       Message("assistant", Dumps(comps)) >>

(***************************************************************************)
(* Inputs: request bodies and completions                                  *)
(***************************************************************************)
KeyType == <<"t", "y", "p", "e">>

KeyTitle == <<"t", "i", "t", "l", "e">>

KeyConfidence == <<"c", "o", "n", "f", "i", "d", "e", "n", "c", "e">>

KeyReuse == <<"r", "e", "u", "s", "e", "_", "p", "o", "t", "e", "n", "t", "i", "a", "l">>

KeyRationale == <<"r", "a", "t", "i", "o", "n", "a", "l", "e">>

\* a Component Record with its six fields
RecFull ==
    PyDict(<<PyItem(KeyType, PyStr(<<"s", "a", "f", "e", "t", "y">>)),
             PyItem(KeyTitle, PyStr(<<"T">>)),
             PyItem(KeyText, PyStr(<<"a">>)),
             PyItem(KeyConfidence, PyNum(95)),
             PyItem(KeyReuse, PyStr(<<"h", "i", "g", "h">>)),
             PyItem(KeyRationale, PyStr(<<"r">>))>>)

\* a record for which the model supplied a component_id of its own
RecId ==
    PyDict(<<PyItem(KeyComponentId, PyStr(<<"c", "o", "m", "p", "_", "0", "0", "9">>)),
             PyItem(KeyType, PyStr(<<"s", "a", "f", "e", "t", "y">>))>>)

\* a record whose text holds a fence
RecFence == PyDict(<<PyItem(KeyText, PyStr(<<"b">> \o FENCE))>>)

\* a record whose text holds a quote, a backslash, a newline and a bracket
RecEsc == PyDict(<<PyItem(KeyText, PyStr(<<QUOTE, BSLASH, NL, "]">>))>>)

Records == {RecFull, RecId, RecFence, RecEsc}

\* the most records in a generated array
MaxComponents == 2

ComponentArrays ==
    {PyList(a) : a \in UNION {[1..m -> Records] : m \in 0..MaxComponents}}

Prose == <<"s", "o", " ">>

Tail1 == <<" ", "[", "x", "]">>

\* the ways a completion presents the array text a
Wrappings(a) ==
    { a,
      <<" ">> \o a \o <<NL>>,
      FENCE \o <<NL>> \o a \o <<NL>> \o FENCE,
      FENCE \o JsonTag \o <<NL>> \o a \o <<NL>> \o FENCE,
      Prose \o a,
      FENCE \o <<NL>> \o Prose \o a \o <<NL>> \o FENCE,
      FENCE \o <<NL>> \o Prose \o a \o <<NL>> \o FENCE \o Tail1 }

\* completions that are no array of records
OtherCompletions ==
    { <<>>,
      <<"o", "o", "p", "s">>,
      <<"[", "o", "o", "p", "s", "]">>,
      <<"]", " ", "[">>,
      <<"5">>,
      <<"n", "u", "l", "l">>,
      <<"[", "1", "]">>,
      <<"[", "{", "}", ",", " ", "1", "]">>,
      <<QUOTE, QUOTE>>,
      <<QUOTE, "a", "b", QUOTE>>,
      <<"{", QUOTE, "c", "o", "m", "p", "o", "n", "e", "n", "t", "s", QUOTE, ":", " ", "5", "}">>,
      <<"{", QUOTE, "c", "o", "m", "p", "o", "n", "e", "n", "t", "s", QUOTE, ":", " ", "{", "}", "}">>,
      <<"{", QUOTE, "c", "o", "m", "p", "o", "n", "e", "n", "t", "s", QUOTE, ":", " ", "{", QUOTE, "a", QUOTE, ":", " ", "1", "}", "}">>,
      FENCE,
      FENCE \o <<"[", "o", "o", "p", "s", "]">> \o FENCE }

Completions ==
    UNION {Wrappings(Dumps(a)) : a \in ComponentArrays}
    \cup {Dumps(PyDict(<<PyItem(KeyComponents, a)>>)) : a \in ComponentArrays}
    \cup {Dumps(rec) : rec \in Records}
    \cup OtherCompletions

\* What client.chat.completions.create gives back: an exception, or a
\* response with its choices, the content of the first one (None or a
\* text) and its usage (None or the token counts).
ApiResponse(raised, choices, hasContent, content, hasUsage) ==
    [raised |-> raised, choices |-> choices, hasContent |-> hasContent,
     content |-> content, hasUsage |-> hasUsage]

NoApiResponse == ApiResponse(FALSE, 0, FALSE, <<>>, FALSE)

ApiResponses ==
    {ApiResponse(FALSE, 1, TRUE, c, TRUE) : c \in Completions}
    \cup { ApiResponse(TRUE, 0, FALSE, <<>>, FALSE),
           ApiResponse(FALSE, 0, FALSE, <<>>, TRUE),
           ApiResponse(FALSE, 1, FALSE, <<>>, TRUE),
           ApiResponse(FALSE, 1, TRUE, Dumps(PyList(<<RecFull, RecId>>)), FALSE) }

\* the decoded bodies of the requests
Bodies ==
    { PyNone,
      PyDict(<<>>),
      PyDict(<<PyItem(KeyType, PyStr(<<"a">>))>>),
      PyDict(<<PyItem(KeyText, PyStr(<<>>))>>),
      PyDict(<<PyItem(KeyText, PyStr(<<" ", NL>>))>>),
      PyDict(<<PyItem(KeyText, PyStr(<<"a">>))>>),
      PyDict(<<PyItem(KeyText, PyStr(<<" ", "a", "b", NL>>))>>),
      PyDict(<<PyItem(KeyText, PyNone)>>),
      PyDict(<<PyItem(KeyText, PyNum(500))>>),
      PyList(<<>>),
      PyList(<<PyStr(<<"a">>)>>),
      PyList(<<PyStr(KeyText)>>),
      PyStr(<<"a">>),
      PyStr(KeyText),
      PyNum(0),
      PyNum(500),
      PyBool(TRUE) }

(***************************************************************************)
(* The request handler identify_components (app.py lines 90-159).  Every   *)
(* variable is a local of the handler, so each is held per request: a      *)
(* function of the request id.                                             *)
(***************************************************************************)
VARIABLES
    pc,           \* where the handler of the request is
    data,         \* request.get_json()
    text,         \* data["text"].strip()
    calls,        \* how many completion calls the request has issued
    response,     \* what client.chat.completions.create returned
    result_text,  \* the local of that name
    components,   \* the local of that name
    idx,          \* the i of "for i, comp in enumerate(components)"
    http          \* the response the handler returned

idVars == <<pc, data, text, calls, response, result_text, components, idx, http>>

HttpResponse(status, success, error, hasComponents, comps, total) ==
    [status |-> status, success |-> success, error |-> error,
     hasComponents |-> hasComponents, components |-> comps, total |-> total]

NoHttpResponse == HttpResponse(0, "absent", "", FALSE, PyNone, -1)

\* jsonify({"error": msg}), 400
BadRequest(msg) == HttpResponse(400, "absent", msg, FALSE, PyNone, -1)

\* a variant that answers with the list built so far
ServerErrorPartial(msg, comps) == HttpResponse(500, "false", msg, TRUE, comps, -1)

\* lines 153-159: jsonify({"success": False, "error": str(e), "components": []}), 500
ServerError(msg, comps) == HttpResponse(500, "false", msg, TRUE, PyList(<<>>), -1)

\* lines 141-151: the success body (status 200)
Success(comps) == HttpResponse(200, "true", "", TRUE, comps, PyLen(comps))

\* the handler returns h
Return(r, h) ==
    /\ http' = [http EXCEPT ![r] = h]
    /\ pc' = [pc EXCEPT ![r] = "done"]

\* an exception raised inside the try block: the except clause answers
Raise(r, msg) == Return(r, ServerError(msg, components[r]))

IdentifyInit(ids) ==
    /\ pc = [r \in ids |-> "start"]
    /\ data = [r \in ids |-> Unbound]
    /\ text = [r \in ids |-> <<>>]
    /\ calls = [r \in ids |-> 0]
    /\ response = [r \in ids |-> NoApiResponse]
    /\ result_text = [r \in ids |-> <<>>]
    /\ components = [r \in ids |-> Unbound]
    /\ idx = [r \in ids |-> 0]
    /\ http = [r \in ids |-> NoHttpResponse]

\* line 93: the body is decoded
GetJson(r, bodies) ==
    /\ pc[r] = "start"
    /\ \E b \in bodies : data' = [data EXCEPT ![r] = b]
    /\ pc' = [pc EXCEPT ![r] = "validate"]
    /\ UNCHANGED <<text, calls, response, result_text, components, idx, http>>

\* line 93: the body is no JSON, get_json raises inside the try block
GetJsonRaises(r) ==
    /\ pc[r] = "start"
    /\ Raise(r, "BadRequest")
    /\ UNCHANGED <<data, text, calls, response, result_text, components, idx>>

\* lines 95-100
ValidateRequest(r) ==
    /\ pc[r] = "validate"
    /\ LET v == Validate(data[r])
       IN  CASE v.kind = "reject" -> Return(r, BadRequest(v.msg)) /\ UNCHANGED text
             [] v.kind = "raise"  -> Raise(r, v.msg) /\ UNCHANGED text
             [] OTHER ->
                  /\ text' = [text EXCEPT ![r] = v.text]
                  /\ pc' = [pc EXCEPT ![r] = "call"]
                  /\ UNCHANGED http
    /\ UNCHANGED <<data, calls, response, result_text, components, idx>>

\* lines 103-111: the one completion call
CallCompletion(r, responses) ==
    /\ pc[r] = "call"
    /\ calls' = [calls EXCEPT ![r] = @ + 1]
    /\ \E a \in responses :
          IF a.raised
          THEN Raise(r, "APIError") /\ UNCHANGED response
          ELSE /\ response' = [response EXCEPT ![r] = a]
               /\ pc' = [pc EXCEPT ![r] = "content"]
               /\ UNCHANGED http
    /\ UNCHANGED <<data, text, result_text, components, idx>>

\* line 113: response.choices[0].message.content.strip()
ReadContent(r) ==
    /\ pc[r] = "content"
    /\ CASE response[r].choices = 0 -> Raise(r, "IndexError") /\ UNCHANGED result_text
         [] ~response[r].hasContent -> Raise(r, "AttributeError") /\ UNCHANGED result_text
         [] OTHER ->
              /\ result_text' = [result_text EXCEPT ![r] = Strip(response[r].content)]
              /\ pc' = [pc EXCEPT ![r] = "parse"]
              /\ UNCHANGED http
    /\ UNCHANGED <<data, text, calls, response, components, idx>>

\* lines 116-135
ParseResponse(r) ==
    /\ pc[r] = "parse"
    /\ LET p == ParseCompletion(result_text[r])
       IN  IF p.raised
           THEN Raise(r, "JSONDecodeError") /\ UNCHANGED components
           ELSE /\ components' = [components EXCEPT ![r] = p.components]
                /\ pc' = [pc EXCEPT ![r] = "assign"]
                /\ UNCHANGED http
    /\ result_text' = [result_text EXCEPT ![r] = StripFence(@)]
    /\ UNCHANGED <<data, text, calls, response, idx>>

\* what one turn of "for i, comp in enumerate(components)" does when the
\* loop stands at i: "stop" (the loop is over), "raise" (TypeError), or
\* "assign" (comp["component_id"] is set)
LoopTurn(comps, i) ==
    CASE comps.k \in {"null", "num", "bool"} -> "raise"   \* not iterable
      [] i >= PyLen(comps)                   -> "stop"
      [] comps.k = "list" /\ comps.v[i + 1].k = "dict" -> "assign"
      [] OTHER                               -> "raise"   \* no item assignment

\* a variant that numbers the records with a counter all requests share
AssignIdShared(r) ==
    /\ pc[r] = "assign"
    /\ LET turn   == LoopTurn(components[r], idx[r])
           comp   == components[r].v[idx[r] + 1]
           others == {q \in DOMAIN pc : q # r /\ idx[q] > 0}
       IN  CASE turn = "raise" -> Raise(r, "TypeError") /\ UNCHANGED <<components, idx>>
             [] turn = "stop"  ->
                  /\ pc' = [pc EXCEPT ![r] = "respond"]
                  /\ UNCHANGED <<components, idx, http>>
             [] OTHER ->
                  /\ components' = [components EXCEPT ![r].v[idx[r] + 1] =
                        SetItem(comp, KeyComponentId,
                                PyStr(FormatId(idx[r] + 1 + Cardinality(others))))]
                  /\ idx' = [idx EXCEPT ![r] = @ + 1]
                  /\ UNCHANGED <<pc, http>>
    /\ UNCHANGED <<data, text, calls, response, result_text>>

\* lines 138-139, one turn of the loop
AssignId(r) ==
    /\ pc[r] = "assign"
    /\ LET turn == LoopTurn(components[r], idx[r])
           comp == components[r].v[idx[r] + 1]
       IN  CASE turn = "raise" -> Raise(r, "TypeError") /\ UNCHANGED <<components, idx>>
             [] turn = "stop"  ->
                  /\ pc' = [pc EXCEPT ![r] = "respond"]
                  /\ UNCHANGED <<components, idx, http>>
             [] OTHER ->
                  /\ components' = [components EXCEPT ![r].v[idx[r] + 1] =
                        SetItem(comp, KeyComponentId, PyStr(FormatId(idx[r] + 1)))]
                  /\ idx' = [idx EXCEPT ![r] = @ + 1]
                  /\ UNCHANGED <<pc, http>>
    /\ UNCHANGED <<data, text, calls, response, result_text>>

\* lines 141-151
Respond(r) ==
    /\ pc[r] = "respond"
    /\ IF response[r].hasUsage
       THEN Return(r, Success(components[r]))
       ELSE Raise(r, "AttributeError")
    /\ UNCHANGED <<data, text, calls, response, result_text, components, idx>>

(***************************************************************************)
(* The labelling of text spans (prepare_data.py lines 14-43)               *)
(***************************************************************************)
UpperChars == <<"A", "B", "C", "D", "E", "F", "G", "H", "I", "J", "K", "L", "M",
                "N", "O", "P", "Q", "R", "S", "T", "U", "V", "W", "X", "Y", "Z">>

LowerChars == <<"a", "b", "c", "d", "e", "f", "g", "h", "i", "j", "k", "l", "m",
                "n", "o", "p", "q", "r", "s", "t", "u", "v", "w", "x", "y", "z">>

\* str.lower() on one character of the model's alphabet
LowerChar(c) ==
    IF \E i \in 1..26 : UpperChars[i] = c
    THEN LowerChars[CHOOSE i \in 1..26 : UpperChars[i] = c]
    ELSE c

\* text.lower()
Lower(t) == [i \in 1..Len(t) |-> LowerChar(t[i])]

\* kw in text
In(kw, t) == Find(t, kw, 0) >= 0

\* the taxonomy, in the insertion order of the dict: each type with its keywords
COMPONENT_TYPES == <<
    [type |-> "boilerplate",
     keywords |-> <<
          <<"c", "o", "m", "p", "l", "i", "a", "n", "c", "e">>,
          <<"r", "e", "g", "u", "l", "a", "t", "o", "r", "y">>,
          <<"g", "c", "p">>,
          <<"i", "c", "h">>,
          <<"f", "d", "a">>,
          <<"c", "o", "n", "f", "i", "d", "e", "n", "t", "i", "a", "l">>,
          <<"a", "g", "r", "e", "e", "m", "e", "n", "t">>,
          <<"e", "t", "h", "i", "c", "a", "l">> >>],
    [type |-> "definition",
     keywords |-> <<
          <<"d", "e", "f", "i", "n", "e", "d", " ", "a", "s">>,
          <<"m", "e", "a", "n", "s">>,
          <<"r", "e", "f", "e", "r", "s", " ", "t", "o">>,
          <<"d", "e", "f", "i", "n", "i", "t", "i", "o", "n">>,
          <<"e", "n", "d", "p", "o", "i", "n", "t">>,
          <<"p", "r", "i", "m", "a", "r", "y", " ", "e", "n", "d", "p", "o", "i", "n", "t">>,
          <<"s", "e", "c", "o", "n", "d", "a", "r", "y", " ", "e", "n", "d", "p", "o", "i", "n", "t">> >>],
    [type |-> "study_section",
     keywords |-> <<
          <<"i", "n", "c", "l", "u", "s", "i", "o", "n", " ", "c", "r", "i", "t", "e", "r", "i", "a">>,
          <<"e", "x", "c", "l", "u", "s", "i", "o", "n", " ", "c", "r", "i", "t", "e", "r", "i", "a">>,
          <<"o", "b", "j", "e", "c", "t", "i", "v", "e">>,
          <<"p", "u", "r", "p", "o", "s", "e">>,
          <<"e", "l", "i", "g", "i", "b", "i", "l", "i", "t", "y">>,
          <<"c", "r", "i", "t", "e", "r", "i", "a">> >>],
    [type |-> "drug_info",
     keywords |-> <<
          <<"d", "o", "s", "e">>,
          <<"d", "o", "s", "a", "g", "e">>,
          <<"f", "o", "r", "m", "u", "l", "a", "t", "i", "o", "n">>,
          <<"m", "e", "c", "h", "a", "n", "i", "s", "m">>,
          <<"p", "h", "a", "r", "m", "a", "c", "o", "k", "i", "n", "e", "t", "i", "c">>,
          <<"a", "d", "m", "i", "n", "i", "s", "t", "r", "a", "t", "i", "o", "n">>,
          <<"d", "r", "u", "g">>,
          <<"m", "e", "d", "i", "c", "a", "t", "i", "o", "n">> >>],
    [type |-> "safety",
     keywords |-> <<
          <<"a", "d", "v", "e", "r", "s", "e", " ", "e", "v", "e", "n", "t">>,
          <<"s", "e", "r", "i", "o", "u", "s", " ", "a", "d", "v", "e", "r", "s", "e">>,
          <<"s", "a", "f", "e", "t", "y">>,
          <<"m", "o", "n", "i", "t", "o", "r", "i", "n", "g">>,
          <<"r", "e", "p", "o", "r", "t", "i", "n", "g">>,
          <<"s", "i", "d", "e", " ", "e", "f", "f", "e", "c", "t">>,
          <<"t", "o", "x", "i", "c", "i", "t", "y">> >>],
    [type |-> "procedure",
     keywords |-> <<
          <<"p", "r", "o", "c", "e", "d", "u", "r", "e">>,
          <<"a", "s", "s", "e", "s", "s", "m", "e", "n", "t">>,
          <<"v", "i", "s", "i", "t">>,
          <<"s", "c", "h", "e", "d", "u", "l", "e">>,
          <<"m", "e", "a", "s", "u", "r", "e", "m", "e", "n", "t">>,
          <<"e", "v", "a", "l", "u", "a", "t", "i", "o", "n">>,
          <<"b", "l", "o", "o", "d">>,
          <<"s", "a", "m", "p", "l", "e">>,
          <<"t", "e", "s", "t">> >>] >>

TypeCount == Len(COMPONENT_TYPES)

\* the dict scores: for each type, in order, how many of its keywords occur
Scores(text_lower) ==
    [i \in 1..TypeCount |->
        Cardinality({j \in 1..Len(COMPONENT_TYPES[i].keywords) :
                        In(COMPONENT_TYPES[i].keywords[j], text_lower)})]

\* a variant of MaxKey: the last key that holds the largest value
MaxKeyLast(scores) ==
    CHOOSE i \in DOMAIN scores :
        /\ \A j \in DOMAIN scores : scores[j] <= scores[i]
        /\ \A j \in DOMAIN scores : j > i => scores[j] < scores[i]

\* max(scores, key=scores.get): the first key, in insertion order, that
\* holds the largest value
MaxKey(scores) ==
    CHOOSE i \in DOMAIN scores :
        /\ \A j \in DOMAIN scores : scores[j] <= scores[i]
        /\ \A j \in DOMAIN scores : j < i => scores[j] < scores[i]

ClassifyText(t) ==
    LET scores == Scores(Lower(t))
        max_type == MaxKey(scores)
    IN  IF scores[max_type] > 0 THEN COMPONENT_TYPES[max_type].type
        ELSE "study_section"

\* the length above which a definition is of medium reuse potential
ReuseLengthLimit == 200

\* a variant of EstimateReusePotential: a definition of exactly the limit
\* length is of medium potential already
EstimateReusePotentialStrict(t, comp_type) ==
    IF comp_type = "boilerplate" THEN "high"
    ELSE IF comp_type = "definition"
         THEN (IF Len(t) >= ReuseLengthLimit THEN "medium" ELSE "high")
         ELSE "medium"

EstimateReusePotential(t, comp_type) ==
    IF comp_type = "boilerplate" THEN "high"
    ELSE IF comp_type = "definition"
         THEN (IF Len(t) > ReuseLengthLimit THEN "medium" ELSE "high")
         ELSE "medium"

(***************************************************************************)
(* Inputs: text spans                                                      *)
(***************************************************************************)
\* the most pieces of a span
MaxPieces == 2

\* pieces of text: without a keyword, with a keyword in capitals, with a
\* keyword inside a word ("ich" in "which"), with a keyword that is part of
\* another of its type, and with keywords of one type and of two types
Pieces == {
    <<"x", "y", "z">>,
    <<"G", "C", "P">>,
    <<"w", "h", "i", "c", "h">>,
    <<"M", "e", "a", "n", "s">>,
    <<"p", "r", "i", "m", "a", "r", "y", " ", "e", "n", "d", "p", "o", "i", "n", "t">>,
    <<"c", "r", "i", "t", "e", "r", "i", "a">>,
    <<"D", "o", "s", "e">>,
    <<"s", "a", "f", "e", "t", "y">>,
    <<"b", "l", "o", "o", "d", " ", "t", "e", "s", "t">> }

RECURSIVE Joined(_)
\* the pieces, a space between each two
Joined(ps) ==
    IF ps = <<>> THEN <<>>
    ELSE ps[1] \o (IF Len(ps) = 1 THEN <<>> ELSE <<" ">> \o Joined(Tail(ps)))

\* t, then a space, then filler up to n characters
Padded(t, n) == t \o <<" ">> \o [i \in 1..(n - Len(t) - 1) |-> "x"]

\* the spans of up to MaxPieces pieces, and each piece at the lengths
\* around the limit
Spans ==
    {Joined(ps) : ps \in UNION {[1..m -> Pieces] : m \in 0..MaxPieces}}
    \cup {Padded(p, n) : p \in Pieces,
                         n \in (ReuseLengthLimit - 1)..(ReuseLengthLimit + 1)}

(***************************************************************************)
(* The data preparation (prepare_data.py)                                  *)
(***************************************************************************)
VARIABLES
    ppc,             \* where the data preparation is
    para,            \* the span process_csv_file labels
    comp_type,       \* the local of process_csv_file: the label of para
    reuse_potential, \* the component's reuse potential
    rows,            \* the rows the csv reader has yet to give
    row,             \* the local of process_csv_file: the row read last
    row_text,        \* the local text of process_csv_file, of the row read last
    examples,        \* the local of process_csv_file
    valid_examples,  \* the local of main: the examples that passed validation
    train_split,     \* args.train_split, in hundredths
    train,           \* the local of main
    val              \* the local of main

labelVars == <<para, comp_type, reuse_potential>>

csvVars == <<rows, row, row_text, examples>>

splitVars == <<valid_examples, train_split, train, val>>

prVars == <<ppc, labelVars, csvVars, splitVars>>

\* before a row is read: as a row without columns
NoRow == <<>>

\* no span is being labelled
LabelOff ==
    /\ para = <<>>
    /\ comp_type = ""
    /\ reuse_potential = ""

\* no file is being read
CsvOff ==
    /\ rows = <<>>
    /\ row = NoRow
    /\ row_text = <<>>
    /\ examples = <<>>

\* nothing is being split
SplitOff ==
    /\ valid_examples = <<>>
    /\ train_split = 0
    /\ train = <<>>
    /\ val = <<>>

\* the preparation's state when it does not run
PrepareOff == ppc = "off" /\ LabelOff /\ CsvOff /\ SplitOff

LabelInit(spans) ==
    /\ ppc = "classify"
    /\ para \in spans
    /\ comp_type = ""
    /\ reuse_potential = ""
    /\ CsvOff
    /\ SplitOff

\* comp_type = classify_text(para)
Classify ==
    /\ ppc = "classify"
    /\ comp_type' = ClassifyText(para)
    /\ ppc' = "estimate"
    /\ UNCHANGED <<para, reuse_potential, csvVars, splitVars>>

\* "reuse_potential": estimate_reuse_potential(para, comp_type)
Estimate ==
    /\ ppc = "estimate"
    /\ reuse_potential' = EstimateReusePotential(para, comp_type)
    /\ ppc' = "labelled"
    /\ UNCHANGED <<para, comp_type, csvVars, splitVars>>

(***************************************************************************)
(* The reading of the CSV file (prepare_data.py, process_csv_file)         *)
(***************************************************************************)
\* a row is a function from the columns of the file's header to their texts
\* row.get(key, default)
Get(r, key, default) == IF key \in DOMAIN r THEN r[key] ELSE default

\* a or b, of two texts
Or(a, b) == IF a # <<>> THEN a ELSE b

\* text[:n]
Prefix(t, n) == SubSeq(t, 1, IF Len(t) < n THEN Len(t) ELSE n)

RECURSIVE SplitText(_, _)
\* text.split(sep)
SplitText(t, sep) ==
    LET i == Find(t, sep, 0)
    IN  IF i < 0 THEN <<t>>
        ELSE <<Slice(t, 0, i)>> \o SplitText(SliceFrom(t, i + Len(sep)), sep)

General == <<"G", "e", "n", "e", "r", "a", "l">>

\* the text of a row: the first of the columns transcription, description
\* and text that is not empty, and empty if none
RowText(r) ==
    Or(Or(Get(r, "transcription", <<>>), Get(r, "description", <<>>)),
       Get(r, "text", <<>>))

Specialty(r) == Or(Get(r, "medical_specialty", <<>>), Get(r, "specialty", General))

\* the least length of a row's text
MinTextLength == 100

\* the length a paragraph has to exceed
MinParagraphLength == 50

\* the length of the text that stands in when no paragraph is long enough
WholeTextLength == 1000

\* the most paragraphs that become components
MaxParagraphs == 5

\* the most characters of a paragraph in its component
ComponentTextLength == 500

\* the most characters of the text in the example
ExampleTextLength == 2000

\* the paragraphs of a text: the stripped parts between blank lines that
\* are longer than MinParagraphLength, and the start of the text if none is
Paragraphs(t) ==
    LET parts == SplitText(t, <<NL, NL>>)
        long == SelectSeq(parts, LAMBDA p : Len(Strip(p)) > MinParagraphLength)
    IN  IF long = <<>> THEN <<Prefix(t, WholeTextLength)>>
        ELSE [i \in 1..Len(long) |-> Strip(long[i])]

\* f"{specialty} - Section {i+1}".strip(), for the paragraph at place n = i + 1
Title(specialty, n) ==
    Strip(specialty
          \o <<" ", "-", " ", "S", "e", "c", "t", "i", "o", "n", " ">>
          \o <<DigitChars[n + 1]>>)

\* round(random.uniform(0.85, 0.98), 2), in hundredths: the ends of the range
Confidences == {85, 98}

\* the component of the paragraph at place n; a label is held as one item
Component(p, n, specialty, confidence) ==
    LET label == ClassifyText(p)
    IN  PyDict(<<PyItem(KeyType, PyStr(<<label>>)),
                 PyItem(KeyTitle, PyStr(Title(specialty, n))),
                 PyItem(KeyText, PyStr(Prefix(p, ComponentTextLength))),
                 PyItem(KeyConfidence, PyNum(confidence)),
                 PyItem(KeyReuse, PyStr(<<EstimateReusePotential(p, label)>>)),
                 PyItem(KeyRationale,
                        PyStr(<<"Self-contained ", label, " section">>))>>)

CsvInit(files) ==
    /\ ppc = "read"
    /\ rows \in files
    /\ row = NoRow
    /\ row_text = <<>>
    /\ examples = <<>>
    /\ LabelOff
    /\ SplitOff

\* one pass of the loop over the reader's rows
ReadRow ==
    /\ ppc = "read"
    /\ rows # <<>>
    /\ LET r == Head(rows)
           t == RowText(r)
       IN  /\ row' = r
           /\ rows' = Tail(rows)
           /\ row_text' = t
           /\ IF t = <<>> \/ Len(t) < MinTextLength
              THEN UNCHANGED examples
              ELSE LET paragraphs == Prefix(Paragraphs(t), MaxParagraphs)
                   IN  \E confidence \in [1..Len(paragraphs) -> Confidences] :
                          examples' =
                              Append(examples,
                                     CreateTrainingExample(
                                         Prefix(t, ExampleTextLength),
                                         PyList([n \in 1..Len(paragraphs) |->
                                                    Component(paragraphs[n], n, Specialty(r),
                                                              confidence[n])])))
    /\ UNCHANGED <<ppc, labelVars, splitVars>>

\* the reader is exhausted: return examples
ReturnExamples ==
    /\ ppc = "read"
    /\ rows = <<>>
    /\ ppc' = "returned"
    /\ UNCHANGED <<labelVars, csvVars, splitVars>>

(***************************************************************************)
(* Inputs: CSV rows                                                        *)
(***************************************************************************)
TextColumns == {"transcription", "description", "text"}

\* the texts of a column: empty, short, one character below the least
\* length, of the least length, and of two paragraphs
ColumnTexts ==
    { <<>>,
      <<"D", "o", "s", "e">>,
      Padded(<<"G", "C", "P">>, MinTextLength - 1),
      Padded(<<"M", "e", "a", "n", "s">>, MinTextLength),
      Padded(<<"s", "a", "f", "e", "t", "y">>, MinParagraphLength + 1)
          \o <<NL, NL>> \o Padded(<<"v", "i", "s", "i", "t">>, MinParagraphLength)
          \o <<NL, NL>> \o Padded(<<"b", "l", "o", "o", "d">>, MinParagraphLength + 2) }

\* the rows of the files whose header has some of the three text columns
Rows == UNION {[cols -> ColumnTexts] : cols \in SUBSET TextColumns}

\* the files of one row
CsvFiles == {<<r>> : r \in Rows}

(***************************************************************************)
(* The split of the valid examples (prepare_data.py, main lines 265-269).  *)
(* args.train_split is a double.  The model holds a ratio given with two   *)
(* decimals as its hundredths p, and works out the product of the code,    *)
(* len(valid_examples) * args.train_split, as double arithmetic gives it:  *)
(* the double nearest to p / 100 is p / 100 + c / (100 * 2^E), where       *)
(* E = 52 + b for 2^-b <= p / 100 < 2^(1 - b) and c is the remainder of    *)
(* p * 2^E on division by 100 brought into -50 .. 50; the exact product    *)
(* n * p / 100 + n * c / (100 * 2^E) is then rounded to the nearest        *)
(* double, ties to the even one.                                           *)
(***************************************************************************)
RECURSIVE Pow2(_)
Pow2(e) == IF e = 0 THEN 1 ELSE 2 * Pow2(e - 1)

RECURSIVE Pow2Mod100(_)
\* 2^e modulo 100
Pow2Mod100(e) == IF e = 0 THEN 1 ELSE (2 * Pow2Mod100(e - 1)) % 100

\* b with 2^-b <= p / 100 < 2^(1 - b), for 1 <= p < 200
Binade(p) ==
    CHOOSE b \in 0..7 : p * Pow2(b) >= 100 /\ (b = 0 \/ p * Pow2(b - 1) < 100)

\* e with 2^e <= m < 2^(e + 1), for 1 <= m < 2^20
Log2Floor(m) == CHOOSE e \in 0..19 : Pow2(e) <= m /\ m < Pow2(e + 1)

\* c: the double of the ratio p / 100 is p / 100 + c / (100 * 2^(52 + Binade(p)))
DoubleError(p) ==
    LET q == (p * Pow2Mod100(52 + Binade(p))) % 100
    IN  IF q < 50 THEN 0 - q ELSE 100 - q

\* int(n * ratio) for n >= 1 and the ratio p / 100, 1 <= p < 200.  The
\* product is below a whole number m only if n * p / 100 is m and the
\* double of the ratio is below p / 100; it is then rounded to m unless it
\* is nearer to the double before m
TruncatedProduct(n, p) ==
    LET m == (n * p) \div 100
        c == DoubleError(p)
    IN  IF (n * p) % 100 # 0 \/ c >= 0 THEN m
        ELSE LET e == Log2Floor(m)
                 x == Binade(p) + e - (IF Pow2(e) = m THEN 2 ELSE 1)
             IN  IF n * (0 - c) * (IF x < 0 THEN Pow2(0 - x) ELSE 1)
                        <= 100 * (IF x > 0 THEN Pow2(x) ELSE 1)
                 THEN m
                 ELSE m - 1

\* a variant of SplitIndex: the product rounded to the nearest whole number
SplitIndexRounded(n, p) == (n * p + 50) \div 100

\* split_idx = int(len(valid_examples) * args.train_split), n the length
\* and p the hundredths of the ratio; int() cuts off towards zero
SplitIndex(n, p) ==
    IF n = 0 \/ p = 0 THEN 0
    ELSE IF p > 0 THEN TruncatedProduct(n, p)
    ELSE 0 - TruncatedProduct(n, 0 - p)

\* the place a slice bound k stands for in a list of n items: a negative
\* bound counts from the end, and a bound beyond an end is that end
SliceBound(k, n) ==
    IF k < 0 THEN (IF n + k < 0 THEN 0 ELSE n + k)
    ELSE (IF k > n THEN n ELSE k)

\* list[:k]
ListTo(l, k) == SubSeq(l, 1, SliceBound(k, Len(l)))

\* list[k:]
ListFrom(l, k) == SubSeq(l, SliceBound(k, Len(l)) + 1, Len(l))

\* the texts of synthetic_data
SyntheticTexts == 6

\* the times the synthetic texts are made into examples again
Replicas == 15

SyntheticCount == SyntheticTexts * (1 + Replicas)

\* an example is named by its place in the list main validates; data is the
\* synthetic text it was made of, 0 for a row of the CSV file.  Two
\* examples of one synthetic text can be equal in every value
Example(i) ==
    [place |-> i,
     data |-> IF i <= SyntheticCount THEN ((i - 1) % SyntheticTexts) + 1 ELSE 0]

\* random.shuffle(l): of the orders it can give, the one the list has, the
\* reverse one and the one that moves the first item to the end
Shuffles(l) ==
    { l,
      [i \in 1..Len(l) |-> l[Len(l) + 1 - i]],
      [i \in 1..Len(l) |-> l[(i % Len(l)) + 1]] }

SplitInit(pools, ratios) ==
    /\ ppc = "shuffle"
    /\ valid_examples \in pools
    /\ train_split \in ratios
    /\ train = <<>>
    /\ val = <<>>
    /\ LabelOff
    /\ CsvOff

\* random.shuffle(valid_examples)
Shuffle ==
    /\ ppc = "shuffle"
    /\ valid_examples' \in Shuffles(valid_examples)
    /\ ppc' = "split"
    /\ UNCHANGED <<train_split, train, val, labelVars, csvVars>>

\* split_idx, train and val
Split ==
    /\ ppc = "split"
    /\ LET split_idx == SplitIndex(Len(valid_examples), train_split)
       IN  /\ train' = ListTo(valid_examples, split_idx)
           /\ val' = ListFrom(valid_examples, split_idx)
    /\ ppc' = "save"
    /\ UNCHANGED <<valid_examples, train_split, labelVars, csvVars>>

(***************************************************************************)
(* Inputs: example pools and ratios                                        *)
(***************************************************************************)
\* the most examples the CSV file adds to the synthetic ones
MaxCsvExamples == 4

\* all the synthetic examples are valid, and so are those of the CSV file
Pools ==
    {[i \in 1..(SyntheticCount + m) |-> Example(i)] : m \in 0..MaxCsvExamples}

\* the ratios, in hundredths: the default 0.8, the ends 0 and 1, a ratio
\* that is a double exactly (0.5), ratios whose double is below them (0.29,
\* 0.57, 0.7), and two that are no part of a whole (-0.5 and 1.5)
Ratios == {0 - 50, 0, 29, 50, 57, 70, 80, 100, 150}

(***************************************************************************)
(* The fine-tuning job driver (fine_tune.py)                               *)
(***************************************************************************)
KeyMessages == <<"m", "e", "s", "s", "a", "g", "e", "s">>

KeyRole == <<"r", "o", "l", "e">>

KeyContent == <<"c", "o", "n", "t", "e", "n", "t">>

RoleSystem == <<"s", "y", "s", "t", "e", "m">>

RoleUser == <<"u", "s", "e", "r">>

RoleAssistant == <<"a", "s", "s", "i", "s", "t", "a", "n", "t">>

RoleName(role) ==
    CASE role = "system" -> RoleSystem
      [] role = "user"   -> RoleUser
      [] OTHER           -> RoleAssistant

\* a message as the dict json.dumps is given
MessageValue(m) ==
    PyDict(<<PyItem(KeyRole, PyStr(RoleName(m.role))),
             PyItem(KeyContent, PyStr(m.content))>>)

\* save_jsonl (prepare_data.py): the line written for one example
SaveLine(example) ==
    Dumps(PyDict(<<PyItem(KeyMessages,
                          PyList([i \in 1..Len(example) |-> MessageValue(example[i])]))>>))
    \o <<NL>>

\* errors[:10] and warnings[:5]
MaxReportedErrors == 10

MaxReportedWarnings == 5

\* validate_training_file, lines 73-87: the checks on the messages of one
\* line, which is a dict holding them
CheckMessages(messages) ==
    LET short    == PyLen(messages) < 2
        \* m.get("role") needs a dict: the items of a list, never the keys
        \* of a dict or the characters of a str
        gettable == /\ messages.k = "list" \/ PyLen(messages) = 0
                    /\ \A i \in 1..PyLen(messages) : messages.v[i].k = "dict"
        assistant == \E i \in 1..PyLen(messages) :
                        /\ HasKey(messages.v[i], KeyRole)
                        /\ GetItem(messages.v[i], KeyRole) = PyStr(RoleAssistant)
        empties  == Cardinality({i \in 1..PyLen(messages) :
                        \/ ~HasKey(messages.v[i], KeyContent)
                        \/ ~Truthy(GetItem(messages.v[i], KeyContent))})
    IN  IF messages.k \notin {"list", "dict", "str"}
        THEN [crash |-> TRUE, errors |-> 0, warnings |-> 0]
        ELSE IF ~gettable
        THEN [crash |-> TRUE, errors |-> IF short THEN 1 ELSE 0, warnings |-> 0]
        ELSE [crash |-> FALSE,
              errors |-> (IF short THEN 1 ELSE 0) + (IF assistant THEN 0 ELSE 1),
              warnings |-> empties]

\* validate_training_file, lines 69-73: the checks on the value of one line
CheckData(d) ==
    IF d.k \in {"null", "num", "bool"}
    THEN [crash |-> TRUE, errors |-> 0, warnings |-> 0]
    ELSE IF ~Contains(d, KeyMessages)
    THEN [crash |-> FALSE, errors |-> 1, warnings |-> 0]
    ELSE IF d.k # "dict"
    THEN [crash |-> TRUE, errors |-> 0, warnings |-> 0]
    ELSE CheckMessages(GetItem(d, KeyMessages))

\* the outcome of json.loads on one line
CheckLoaded(r) ==
    IF ~r.ok THEN [crash |-> FALSE, errors |-> 1, warnings |-> 0]
    ELSE CheckData(r.val)

\* What the body of the loop of validate_training_file does with one line:
\* whether an exception escapes it (only json.JSONDecodeError is caught),
\* and how many errors and warnings it appends.
LineCheck(line) == CheckLoaded(Loads(line))

Min(a, b) == IF a < b THEN a ELSE b

RECURSIVE SumOver(_, _)
\* the sum of f over the positions 1..m
SumOver(f, m) == IF m = 0 THEN 0 ELSE SumOver(f, m - 1) + f[m]

\* the dict validate_training_file returns for the errors and warnings
\* it counted
ValidationResult(errors, warnings) ==
    [crash |-> FALSE, valid |-> errors = 0, error_count |-> errors,
     reported |-> Min(errors, MaxReportedErrors),
     warning_count |-> warnings,
     warned |-> Min(warnings, MaxReportedWarnings)]

\* the outcome of the loop, checks being the outcome of each line
Tally(checks) ==
    IF \E i \in 1..Len(checks) : checks[i].crash
    THEN [crash |-> TRUE, valid |-> FALSE, error_count |-> 0, reported |-> 0,
          warning_count |-> 0, warned |-> 0]
    ELSE ValidationResult(
             SumOver([i \in 1..Len(checks) |-> checks[i].errors], Len(checks)),
             SumOver([i \in 1..Len(checks) |-> checks[i].warnings], Len(checks)))

\* validate_training_file on a file [exists, lines]: crash is an exception
\* leaving the function
ValidateTrainingFile(file) ==
    IF ~file.exists
    THEN [crash |-> FALSE, valid |-> FALSE, error_count |-> 0, reported |-> 0,
          warning_count |-> 0, warned |-> 0]
    ELSE Tally([i \in 1..Len(file.lines) |-> LineCheck(file.lines[i])])

NoResult ==
    [crash |-> FALSE, valid |-> FALSE, error_count |-> -1, reported |-> 0,
     warning_count |-> 0, warned |-> 0]

\* the statuses of a fine-tuning job at the service
JobStatuses ==
    {"validating_files", "queued", "running", "succeeded", "failed", "cancelled"}

\* a variant that waits on past a cancelled job
ReturnsOnEndedOnly(status) == status \in {"succeeded", "failed"}

\* the statuses at which wait_for_completion returns (lines 185-198)
ReturnsOn(status) == status \in {"succeeded", "failed", "cancelled"}

\* the steps a job takes at the service
JobSteps ==
    { <<"validating_files", "queued">>, <<"validating_files", "failed">>,
      <<"validating_files", "cancelled">>,
      <<"queued", "running">>, <<"queued", "cancelled">>,
      <<"running", "succeeded">>, <<"running", "failed">>,
      <<"running", "cancelled">> }

\* check_job_status: the record built of the job.  The service fills
\* fine_tuned_model and trained_tokens when the job has succeeded.
StatusRecord(status) ==
    [status |-> status,
     fine_tuned_model |-> IF status = "succeeded" THEN "ft:gpt-4o-mini:clinical-components"
                          ELSE "None",
     trained_tokens |-> IF status = "succeeded" THEN "int" ELSE "None"]

NoStatus == StatusRecord("none")

VARIABLES
    mode,          \* the command line: "full" or "upload_only"
    api_key,       \* whether OPENAI_API_KEY is set
    training_file, \* data/training_data.jsonl: [exists, lines]
    validation_file, \* data/validation_data.jsonl
    dpc,           \* where the driver is
    train_result,  \* the local of run_full_workflow
    val_result,    \* the local of run_full_workflow
    uploads,       \* the files the service received, in order
    job,           \* the status of the job at the service, "none" before
    polled,        \* the records check_job_status gave wait_for_completion
    final_status,  \* what wait_for_completion returned
    saved,         \* the content of fine_tuned_model.txt, "" when not written
    tested         \* whether test_fine_tuned_model was called

drVars == <<mode, api_key, training_file, validation_file, dpc, train_result,
            val_result, uploads, job, polled, final_status, saved, tested>>

vars == <<idVars, drVars, prVars>>

File(exists, lines) == [exists |-> exists, lines |-> lines]

Upload(name, file) == [name |-> name, lines |-> file.lines]

\* the driver's state when it does not run
DriverOff ==
    /\ mode = "off"
    /\ api_key = FALSE
    /\ training_file = File(FALSE, <<>>)
    /\ validation_file = File(FALSE, <<>>)
    /\ dpc = "off"
    /\ train_result = NoResult
    /\ val_result = NoResult
    /\ uploads = <<>>
    /\ job = "none"
    /\ polled = <<>>
    /\ final_status = NoStatus
    /\ saved = ""
    /\ tested = FALSE

\* the driver is started on the files and the environment it finds
DriverInit(modes, files, vfiles) ==
    /\ mode \in modes
    /\ api_key \in BOOLEAN
    /\ training_file \in files
    /\ validation_file \in vfiles
    /\ dpc = "main"
    /\ train_result = NoResult
    /\ val_result = NoResult
    /\ uploads = <<>>
    /\ job = "none"
    /\ polled = <<>>
    /\ final_status = NoStatus
    /\ saved = ""
    /\ tested = FALSE

Goto(label) == dpc' = label

\* main, lines 358-385: the key is checked, then the mode is taken
MainDispatch ==
    /\ dpc = "main"
    /\ IF ~api_key THEN Goto("exit")
       ELSE IF mode = "upload_only" THEN Goto("only_training")
       ELSE Goto("validate_training")
    /\ UNCHANGED <<mode, api_key, training_file, validation_file, train_result,
                   val_result, uploads, job, polled, final_status, saved, tested>>

\* upload_file, lines 112-127: open raises for a missing file, and the
\* transfer may fail; neither is caught
UploadFile(name, file, next) ==
    \/ /\ file.exists
       /\ uploads' = Append(uploads, Upload(name, file))
       /\ Goto(next)
    \/ /\ UNCHANGED uploads
       /\ Goto("crashed")

\* main, line 379
UploadOnlyTraining ==
    /\ dpc = "only_training"
    /\ UploadFile("training", training_file, "only_validation")
    /\ UNCHANGED <<mode, api_key, training_file, validation_file, train_result,
                   val_result, job, polled, final_status, saved, tested>>

\* main, lines 380-382
UploadOnlyValidation ==
    /\ dpc = "only_validation"
    /\ IF validation_file.exists
       THEN UploadFile("validation", validation_file, "exit")
       ELSE Goto("exit") /\ UNCHANGED uploads
    /\ UNCHANGED <<mode, api_key, training_file, validation_file, train_result,
                   val_result, job, polled, final_status, saved, tested>>

\* run_full_workflow, lines 284-287
ValidateTraining ==
    /\ dpc = "validate_training"
    /\ LET res == ValidateTrainingFile(training_file)
       IN  /\ train_result' = res
           /\ IF res.crash THEN Goto("crashed")
              ELSE IF ~res.valid THEN Goto("exit")
              ELSE Goto("validate_validation")
    /\ UNCHANGED <<mode, api_key, training_file, validation_file, val_result,
                   uploads, job, polled, final_status, saved, tested>>

\* run_full_workflow, lines 289-291
ValidateValidation ==
    /\ dpc = "validate_validation"
    /\ IF validation_file.exists
       THEN LET res == ValidateTrainingFile(validation_file)
            IN  /\ val_result' = res
                /\ IF res.crash THEN Goto("crashed") ELSE Goto("upload_training")
       ELSE Goto("upload_training") /\ UNCHANGED val_result
    /\ UNCHANGED <<mode, api_key, training_file, validation_file, train_result,
                   uploads, job, polled, final_status, saved, tested>>

\* run_full_workflow, line 298
UploadTraining ==
    /\ dpc = "upload_training"
    /\ UploadFile("training", training_file, "upload_validation")
    /\ UNCHANGED <<mode, api_key, training_file, validation_file, train_result,
                   val_result, job, polled, final_status, saved, tested>>

\* run_full_workflow, lines 300-302
UploadValidation ==
    /\ dpc = "upload_validation"
    /\ IF val_result # NoResult /\ val_result.valid
       THEN UploadFile("validation", validation_file, "create_job")
       ELSE Goto("create_job") /\ UNCHANGED uploads
    /\ UNCHANGED <<mode, api_key, training_file, validation_file, train_result,
                   val_result, job, polled, final_status, saved, tested>>

\* create_fine_tuning_job, lines 130-152, called at line 313
CreateJob ==
    /\ dpc = "create_job"
    /\ \/ job' = "validating_files" /\ Goto("wait")
       \/ UNCHANGED job /\ Goto("crashed")
    /\ UNCHANGED <<mode, api_key, training_file, validation_file, train_result,
                   val_result, uploads, polled, final_status, saved, tested>>

\* the most status retrievals of one wait
MaxPolls == 3

\* wait_for_completion, lines 178-201: one turn of the loop
Poll ==
    /\ dpc = "wait"
    /\ Len(polled) < MaxPolls
    /\ \/ LET status == StatusRecord(job)
          IN  /\ polled' = Append(polled, status)
              /\ IF ReturnsOn(status.status)
                 THEN final_status' = status /\ Goto("save")
                 ELSE UNCHANGED <<final_status, dpc>>
       \/ UNCHANGED <<polled, final_status>> /\ Goto("crashed")
    /\ UNCHANGED <<mode, api_key, training_file, validation_file, train_result,
                   val_result, uploads, job, saved, tested>>

\* a variant that writes the identifier and tests whatever the final status
SaveModelAlways ==
    /\ dpc = "save"
    /\ saved' = final_status.fine_tuned_model
    /\ tested' = TRUE
    /\ Goto("exit")
    /\ UNCHANGED <<mode, api_key, training_file, validation_file, train_result,
                   val_result, uploads, job, polled, final_status>>

\* run_full_workflow, lines 323-344: the file is written (open or write may
\* raise), then the test completion is issued (and may raise)
SaveModel ==
    /\ dpc = "save"
    /\ IF final_status.status = "succeeded"
       THEN \/ UNCHANGED <<saved, tested>> /\ Goto("crashed")
            \/ /\ saved' = final_status.fine_tuned_model
               /\ tested' = TRUE
               /\ \/ Goto("exit")
                  \/ Goto("crashed")
       ELSE UNCHANGED <<saved, tested>> /\ Goto("exit")
    /\ UNCHANGED <<mode, api_key, training_file, validation_file, train_result,
                   val_result, uploads, job, polled, final_status>>

\* the service moves the job on
JobAdvance ==
    /\ \E step \in JobSteps : job = step[1] /\ job' = step[2]
    /\ UNCHANGED <<mode, api_key, training_file, validation_file, dpc,
                   train_result, val_result, uploads, polled, final_status,
                   saved, tested>>

\* wait_for_completion, lines 179-198: the status retrieval of one turn of
\* the loop, which no count and no clock limits; of the records retrieved
\* the last one is kept
Retrieve ==
    /\ dpc = "wait"
    /\ \/ LET status == StatusRecord(job)
          IN  /\ polled' = <<status>>
              /\ IF ReturnsOn(status.status)
                 THEN final_status' = status /\ Goto("save")
                 ELSE UNCHANGED final_status /\ Goto("sleep")
       \/ UNCHANGED <<polled, final_status>> /\ Goto("crashed")
    /\ UNCHANGED <<mode, api_key, training_file, validation_file, train_result,
                   val_result, uploads, job, saved, tested>>

\* a variant that gives the wait up after one interval
SleepGivesUp ==
    /\ dpc = "sleep"
    /\ Goto("exit")
    /\ UNCHANGED <<mode, api_key, training_file, validation_file, train_result,
                   val_result, uploads, job, polled, final_status, saved, tested>>

\* wait_for_completion, line 201: time.sleep(poll_interval), then the next
\* turn of the loop
Sleep ==
    /\ dpc = "sleep"
    /\ Goto("wait")
    /\ UNCHANGED <<mode, api_key, training_file, validation_file, train_result,
                   val_result, uploads, job, polled, final_status, saved, tested>>

(***************************************************************************)
(* Specifications                                                          *)
(***************************************************************************)
\* Spec: the service handling one request, with every body and every
\* completion; the driver does not run
Init == IdentifyInit({1}) /\ DriverOff /\ PrepareOff

Receive == (\E r \in DOMAIN pc : GetJson(r, Bodies)) /\ UNCHANGED <<drVars, prVars>>

ReceiveMalformed == (\E r \in DOMAIN pc : GetJsonRaises(r)) /\ UNCHANGED <<drVars, prVars>>

Check == (\E r \in DOMAIN pc : ValidateRequest(r)) /\ UNCHANGED <<drVars, prVars>>

Complete == (\E r \in DOMAIN pc : CallCompletion(r, ApiResponses)) /\ UNCHANGED <<drVars, prVars>>

Content == (\E r \in DOMAIN pc : ReadContent(r)) /\ UNCHANGED <<drVars, prVars>>

Parse == (\E r \in DOMAIN pc : ParseResponse(r)) /\ UNCHANGED <<drVars, prVars>>

Assign == (\E r \in DOMAIN pc : AssignId(r)) /\ UNCHANGED <<drVars, prVars>>

Answer == (\E r \in DOMAIN pc : Respond(r)) /\ UNCHANGED <<drVars, prVars>>

Next ==
    \/ Receive
    \/ ReceiveMalformed
    \/ Check
    \/ Complete
    \/ Content
    \/ Parse
    \/ Assign
    \/ Answer

Spec == Init /\ [][Next]_vars

\* the lines of the training files
LineExample == SaveLine(CreateTrainingExample(<<"a">>, PyList(<<RecEsc>>)))

LineNoContent == <<"{", QUOTE, "m", "e", "s", "s", "a", "g", "e", "s", QUOTE, ":", " ", "[", "{", QUOTE, "r", "o", "l", "e", QUOTE, ":", " ", QUOTE, "u", "s", "e", "r", QUOTE, "}", ",", " ", "{", QUOTE, "r", "o", "l", "e", QUOTE, ":", " ", QUOTE, "a", "s", "s", "i", "s", "t", "a", "n", "t", QUOTE, "}", "]", "}", NL>>

LineNotJson == <<"o", "o", "p", "s", NL>>

LineNoMessages == <<"{", QUOTE, "t", "e", "x", "t", QUOTE, ":", " ", QUOTE, "a", QUOTE, "}", NL>>

LineOneMessage == <<"{", QUOTE, "m", "e", "s", "s", "a", "g", "e", "s", QUOTE, ":", " ", "[", "{", QUOTE, "r", "o", "l", "e", QUOTE, ":", " ", QUOTE, "a", "s", "s", "i", "s", "t", "a", "n", "t", QUOTE, ",", " ", QUOTE, "c", "o", "n", "t", "e", "n", "t", QUOTE, ":", " ", QUOTE, "a", QUOTE, "}", "]", "}", NL>>

LineNoAssistant == <<"{", QUOTE, "m", "e", "s", "s", "a", "g", "e", "s", QUOTE, ":", " ", "[", "{", QUOTE, "r", "o", "l", "e", QUOTE, ":", " ", QUOTE, "s", "y", "s", "t", "e", "m", QUOTE, ",", " ", QUOTE, "c", "o", "n", "t", "e", "n", "t", QUOTE, ":", " ", QUOTE, "a", QUOTE, "}", ",", " ", "{", QUOTE, "r", "o", "l", "e", QUOTE, ":", " ", QUOTE, "u", "s", "e", "r", QUOTE, ",", " ", QUOTE, "c", "o", "n", "t", "e", "n", "t", QUOTE, ":", " ", QUOTE, "a", QUOTE, "}", "]", "}", NL>>

LineNumber == <<"5", NL>>

LineKinds ==
    {LineExample, LineNoContent, LineNotJson, LineNoMessages, LineOneMessage,
     LineNoAssistant, LineNumber}

\* the most lines in a generated training file
MaxLines == 2

TrainingFiles ==
    {File(FALSE, <<>>)}
    \cup {File(TRUE, l) : l \in UNION {[1..m -> LineKinds] : m \in 0..MaxLines}}

ValidationFiles ==
    {File(FALSE, <<>>), File(TRUE, <<LineExample>>), File(TRUE, <<LineNoMessages>>)}

\* SpecDriver: the driver, in the two modes that upload, on every training
\* file; the service handles no request
InitDriver ==
    /\ IdentifyInit({})
    /\ DriverInit({"full", "upload_only"}, TrainingFiles, ValidationFiles)
    /\ PrepareOff

NextDriver ==
    \/ MainDispatch /\ UNCHANGED <<idVars, prVars>>
    \/ UploadOnlyTraining /\ UNCHANGED <<idVars, prVars>>
    \/ UploadOnlyValidation /\ UNCHANGED <<idVars, prVars>>
    \/ ValidateTraining /\ UNCHANGED <<idVars, prVars>>
    \/ ValidateValidation /\ UNCHANGED <<idVars, prVars>>
    \/ UploadTraining /\ UNCHANGED <<idVars, prVars>>
    \/ UploadValidation /\ UNCHANGED <<idVars, prVars>>
    \/ CreateJob /\ UNCHANGED <<idVars, prVars>>
    \/ Poll /\ UNCHANGED <<idVars, prVars>>
    \/ SaveModel /\ UNCHANGED <<idVars, prVars>>
    \/ JobAdvance /\ UNCHANGED <<idVars, prVars>>

SpecDriver == InitDriver /\ [][NextDriver]_vars

\* SpecWait: the driver with the wait loop as the code has it, unlimited;
\* the process is scheduled again and again, so a status retrieval or a
\* sleep that is due is taken.  Nothing is assumed of the job.
InitWait ==
    /\ IdentifyInit({})
    /\ DriverInit({"full", "upload_only"},
                  {File(TRUE, <<LineExample>>), File(TRUE, <<LineNotJson>>)},
                  ValidationFiles)
    /\ PrepareOff

NextWait ==
    \/ MainDispatch /\ UNCHANGED <<idVars, prVars>>
    \/ UploadOnlyTraining /\ UNCHANGED <<idVars, prVars>>
    \/ UploadOnlyValidation /\ UNCHANGED <<idVars, prVars>>
    \/ ValidateTraining /\ UNCHANGED <<idVars, prVars>>
    \/ ValidateValidation /\ UNCHANGED <<idVars, prVars>>
    \/ UploadTraining /\ UNCHANGED <<idVars, prVars>>
    \/ UploadValidation /\ UNCHANGED <<idVars, prVars>>
    \/ CreateJob /\ UNCHANGED <<idVars, prVars>>
    \/ Retrieve /\ UNCHANGED <<idVars, prVars>>
    \/ Sleep /\ UNCHANGED <<idVars, prVars>>
    \/ SaveModel /\ UNCHANGED <<idVars, prVars>>
    \/ JobAdvance /\ UNCHANGED <<idVars, prVars>>

SpecWait ==
    /\ InitWait
    /\ [][NextWait]_vars
    /\ WF_vars(Retrieve /\ UNCHANGED <<idVars, prVars>>)
    /\ WF_vars(Sleep /\ UNCHANGED <<idVars, prVars>>)

\* SpecConcurrent: the service handling two requests at once, the steps of
\* their handlers interleaved in every way; the driver does not run
FewBodies ==
    { PyDict(<<PyItem(KeyText, PyStr(<<"a">>))>>),
      PyDict(<<PyItem(KeyText, PyStr(<<" ", NL>>))>>),
      PyBool(TRUE) }

FewResponses ==
    { ApiResponse(TRUE, 0, FALSE, <<>>, FALSE),
      ApiResponse(FALSE, 1, TRUE, Dumps(PyList(<<RecFull, RecId>>)), TRUE),
      ApiResponse(FALSE, 1, TRUE, Dumps(PyList(<<RecEsc>>)), TRUE),
      ApiResponse(FALSE, 1, TRUE, <<"[", "o", "o", "p", "s", "]">>, TRUE),
      ApiResponse(FALSE, 1, TRUE, Dumps(PyList(<<RecId, PyNum(100)>>)), TRUE) }

InitConcurrent == IdentifyInit({1, 2}) /\ DriverOff /\ PrepareOff

NextConcurrent ==
    \/ (\E r \in DOMAIN pc : GetJson(r, FewBodies)) /\ UNCHANGED <<drVars, prVars>>
    \/ ReceiveMalformed
    \/ Check
    \/ (\E r \in DOMAIN pc : CallCompletion(r, FewResponses)) /\ UNCHANGED <<drVars, prVars>>
    \/ Content
    \/ Parse
    \/ Assign
    \/ Answer

SpecConcurrent == InitConcurrent /\ [][NextConcurrent]_vars

\* SpecLabel: one span is labelled as process_csv_file labels a paragraph:
\* classified, then given its reuse potential; nothing else runs
InitLabel == IdentifyInit({}) /\ DriverOff /\ LabelInit(Spans)

NextLabel ==
    \/ Classify /\ UNCHANGED <<idVars, drVars>>
    \/ Estimate /\ UNCHANGED <<idVars, drVars>>

SpecLabel == InitLabel /\ [][NextLabel]_vars

\* SpecCsv: process_csv_file reads a file of one row; nothing else runs
InitCsv == IdentifyInit({}) /\ DriverOff /\ CsvInit(CsvFiles)

NextCsv ==
    \/ ReadRow /\ UNCHANGED <<idVars, drVars>>
    \/ ReturnExamples /\ UNCHANGED <<idVars, drVars>>

SpecCsv == InitCsv /\ [][NextCsv]_vars

\* SpecSplit: main shuffles and splits the examples it validated; nothing
\* else runs
InitSplit == IdentifyInit({}) /\ DriverOff /\ SplitInit(Pools, Ratios)

NextSplit ==
    \/ Shuffle /\ UNCHANGED <<idVars, drVars>>
    \/ Split /\ UNCHANGED <<idVars, drVars>>

SpecSplit == InitSplit /\ [][NextSplit]_vars

(***************************************************************************)
(* Properties of the request handler                                       *)
(***************************************************************************)
\* the completion text as the parser receives it (line 113)
Raw(r) == Strip(response[r].content)

\* Parse has just acted on request r
JustParsed(r) ==
    \/ pc[r] = "assign" /\ idx[r] = 0
    \/ pc[r] = "done" /\ http[r].error = "JSONDecodeError"

\* what the parser made of the completion of r, once Parse has acted
Outcome(r) ==
    IF pc[r] = "assign" THEN [raised |-> FALSE, components |-> components[r]]
    ELSE [raised |-> TRUE, components |-> PyNone]

Yields(comps) == [raised |-> FALSE, components |-> comps]

\* the body has no text field
MissingText(d) == d.k # "unbound" /\ (d.k # "dict" \/ ~HasKey(d, KeyText))

\* the body has a text that is empty once trimmed
BlankText(d) ==
    /\ d.k = "dict"
    /\ HasKey(d, KeyText)
    /\ GetItem(d, KeyText).k = "str"
    /\ \A i \in 1..Len(GetItem(d, KeyText).s) : GetItem(d, KeyText).s[i] \in Whitespace

\* C1: a request whose decoded body has no text field, or a text that is
\* empty once trimmed, is answered 400 with an error field, and no
\* completion call is issued for it.
C1_MissingOrBlankTextIs400 ==
    \A r \in DOMAIN pc :
        pc[r] = "done" /\ (MissingText(data[r]) \/ BlankText(data[r]))
        => /\ http[r].status = 400
           /\ http[r].error # ""
           /\ calls[r] = 0

\* comp_ and i in three digits, for i below 1000
ExpectedId(i) ==
    <<"c", "o", "m", "p", "_",
      DigitChars[((i \div 100) % 10) + 1],
      DigitChars[((i \div 10) % 10) + 1],
      DigitChars[(i % 10) + 1]>>

\* C2: in a 200 response with N components, the record at position i has
\* component_id comp_ followed by i in three digits, for all i in 1..N, so
\* the ids are pairwise distinct, whatever id the model supplied.
C2_IdsFollowPosition ==
    \A r \in DOMAIN pc :
        http[r].status = 200 =>
            LET c == http[r].components
            IN  /\ \A i \in 1..PyLen(c) :
                      /\ c.k = "list"
                      /\ c.v[i].k = "dict"
                      /\ HasKey(c.v[i], KeyComponentId)
                      /\ GetItem(c.v[i], KeyComponentId) = PyStr(ExpectedId(i))
                /\ \A i, j \in 1..PyLen(c) :
                      i < j => GetItem(c.v[i], KeyComponentId)
                               # GetItem(c.v[j], KeyComponentId)

\* a 200 response with two records, the second of which came with an id
\* of the model's own
C2_Witness ==
    \E r \in DOMAIN pc :
        /\ http[r].status = 200
        /\ http[r].total = 2
        /\ Raw(r) = Dumps(PyList(<<RecFull, RecId>>))
        /\ GetItem(RecId, KeyComponentId) # PyStr(ExpectedId(2))

\* no repair attempt, on the raw or on the stripped text, gets an array
\* out of the completion text t
Unrepairable(t) ==
    LET direct == Loads(StripFence(t))
        inRaw  == RegexSearch(t)
        inSeg  == RegexSearch(StripFence(t))
    IN  /\ ~(direct.ok /\ Unwrap(direct.val).k = "list")
        /\ ~(inRaw.found /\ Loads(inRaw.group).ok)
        /\ ~(inSeg.found /\ Loads(inSeg.group).ok)

\* C3: when the completion text is no JSON array even after every repair
\* attempt, the request is answered 200 with an empty component list and
\* total_components 0, never with an error.
C3_UnparseableDegradesSilently ==
    \A r \in DOMAIN pc :
        /\ pc[r] = "done"
        /\ response[r].choices > 0 /\ response[r].hasContent /\ response[r].hasUsage
        /\ Unrepairable(Raw(r))
        => http[r] = Success(PyList(<<>>))

\* the loop of lines 138-139 raises on the parsed value comps
LoopRaises(comps) ==
    CASE comps.k \in {"null", "num", "bool"} -> TRUE
      [] comps.k = "list" -> \E i \in 1..Len(comps.v) : comps.v[i].k # "dict"
      [] OTHER            -> PyLen(comps) > 0

\* some statement after the validation raises for request r
RaisesAfterValidation(r) ==
    \/ response[r] = NoApiResponse
    \/ response[r].choices = 0
    \/ ~response[r].hasContent
    \/ ~response[r].hasUsage
    \/ ParseCompletion(Raw(r)).raised
    \/ LoopRaises(ParseCompletion(Raw(r)).components)

\* C4: for a request that passed validation, an exception raised at any
\* later point gives status 500 with success false, an error string and
\* components the empty list; without one the answer is the 200 body.
C4_ExceptionIs500WithEmptyList ==
    \A r \in DOMAIN pc :
        pc[r] = "done" /\ calls[r] > 0
        => IF RaisesAfterValidation(r)
           THEN /\ http[r].status = 500
                /\ http[r].success = "false"
                /\ http[r].error # ""
                /\ http[r].hasComponents
                /\ http[r].components = PyList(<<>>)
           ELSE http[r].status = 200 /\ http[r].success = "true"

\* an exception after ids were assigned: the list built so far is dropped
C4_Witness ==
    \E r \in DOMAIN pc :
        /\ http[r].status = 500
        /\ calls[r] > 0
        /\ components[r].k = "list"
        /\ idx[r] > 0

\* C5: when the stripped text parses directly, the parser yields the array
\* itself, the value of the components key of an object that has one, and
\* the one-element array of an object that has none.
C5_DirectParseCases ==
    \A r \in DOMAIN pc :
        JustParsed(r) =>
            LET direct == Loads(StripFence(Raw(r)))
                parsed == direct.val
            IN  direct.ok =>
                  CASE parsed.k = "list" -> Outcome(r) = Yields(parsed)
                    [] parsed.k = "dict" /\ HasKey(parsed, KeyComponents) ->
                          Outcome(r) = Yields(GetItem(parsed, KeyComponents))
                    [] parsed.k = "dict" -> Outcome(r) = Yields(PyList(<<parsed>>))
                    [] OTHER -> TRUE

\* an object with a components key of two records has been unwrapped
C5_Witness ==
    \E r \in DOMAIN pc :
        /\ JustParsed(r)
        /\ pc[r] = "assign"
        /\ Raw(r) = Dumps(PyDict(<<PyItem(KeyComponents, PyList(<<RecFull, RecEsc>>))>>))
        /\ components[r] = PyList(<<RecFull, RecEsc>>)

\* the outcome of the bracket search on text t: json.loads of the span
\* from the first "[" to the last "]", the empty list when there is none
BracketParse(t) ==
    LET m == RegexSearch(t)
    IN  IF ~m.found THEN Yields(PyList(<<>>))
        ELSE IF Loads(m.group).ok THEN Yields(Loads(m.group).val)
        ELSE [raised |-> TRUE, components |-> PyNone]

Fenced(a) ==
    { FENCE \o <<NL>> \o a \o <<NL>> \o FENCE,
      FENCE \o JsonTag \o <<NL>> \o a \o <<NL>> \o FENCE }

\* each fenced text with the array text inside it
FencedPairs ==
    UNION {{<<f, Dumps(a)>> : f \in Fenced(Dumps(a))} : a \in ComponentArrays}

\* C7: the parser makes of an array literal between fences what it makes
\* of the array literal itself.
C7_FenceStrippingTransparent ==
    \A r \in DOMAIN pc :
        JustParsed(r) =>
            \A p \in FencedPairs :
                Raw(r) = p[1] => Outcome(r) = ParseCompletion(p[2])

\* each array of records with the assistant message made of it
TrainingPairs ==
    {<<a, CreateTrainingExample(<<"a">>, a)[3].content>> : a \in ComponentArrays}

\* C8: the parser makes of the assistant message of
\* create_training_example the sequence of records it was made of.
C8_RoundTrip ==
    \A r \in DOMAIN pc :
        JustParsed(r) =>
            \A p \in TrainingPairs :
                response[r].content = p[2] => Outcome(r) = Yields(p[1])

\* the assistant message of two records, one with characters that need
\* escaping, has been parsed
C8_Witness ==
    \E r \in DOMAIN pc :
        /\ JustParsed(r)
        /\ response[r].content =
              CreateTrainingExample(<<"a">>, PyList(<<RecEsc, RecFull>>))[3].content
        /\ components[r] = PyList(<<RecEsc, RecFull>>)

(***************************************************************************)
(* Properties of the fine-tuning driver                                    *)
(***************************************************************************)
\* the line is not valid JSON, lacks a messages key, has fewer than two
\* messages, or has no message with role assistant
BadLine(line) ==
    LET parsed == Loads(line)
    IN  \/ ~parsed.ok
        \/ parsed.val.k # "dict"
        \/ ~HasKey(parsed.val, KeyMessages)
        \/ LET msgs == GetItem(parsed.val, KeyMessages)
           IN  \/ msgs.k # "list"
               \/ Len(msgs.v) < 2
               \/ ~\E i \in 1..Len(msgs.v) :
                      /\ msgs.v[i].k = "dict"
                      /\ HasKey(msgs.v[i], KeyRole)
                      /\ GetItem(msgs.v[i], KeyRole) = PyStr(RoleAssistant)

\* C9: in every mode that uploads, full workflow and upload-only, no file
\* is uploaded in which some line is not valid JSON, lacks a messages key,
\* has fewer than two messages, or has no message with role assistant.
C9_NoInvalidUpload ==
    \A u \in 1..Len(uploads) :
        \A j \in 1..Len(uploads[u].lines) : ~BadLine(uploads[u].lines[j])

\* the terminal statuses of a job
Terminal == {"succeeded", "failed", "cancelled"}

\* wait_for_completion has returned
Returned == final_status # NoStatus

\* C10: wait_for_completion returns exactly at the first poll that observes
\* succeeded, failed or cancelled, with the record of that poll; it does not
\* return on a poll that observes another status, and it retrieves no
\* status after a terminal one was observed.
C10_ReturnsAtFirstTerminalPoll ==
    /\ \A i \in 1..(Len(polled) - 1) : polled[i].status \notin Terminal
    /\ Returned <=> (polled # <<>> /\ polled[Len(polled)].status \in Terminal)
    /\ Returned => final_status = polled[Len(polled)]
    /\ Returned => dpc # "wait"

\* the wait has returned on a cancelled job, at the third poll, after two
\* polls that observed a job still under way
C10_Witness ==
    /\ Len(polled) = 3
    /\ polled[1].status = "queued"
    /\ polled[2].status = "running"
    /\ polled[3].status = "cancelled"
    /\ final_status = polled[3]
    /\ dpc = "exit"

\* the wait loop is running
Waiting == dpc \in {"wait", "sleep"}

\* C11: the loop has no timeout and no poll limit.  Once the job has ended,
\* a wait whose status retrievals succeed returns; and in a run in which
\* the job never ends and no retrieval fails, a wait that was entered
\* retrieves the status again and again, sleeps again and again, and never
\* returns.
C11_WaitReturnsIffJobEnds ==
    /\ (Waiting /\ job \in Terminal) ~> (Returned \/ dpc = "crashed")
    /\ (<>(dpc = "wait") /\ [](job \notin Terminal) /\ [](dpc # "crashed"))
       => ([]<>(dpc = "wait") /\ []<>(dpc = "sleep") /\ []~Returned)

\* the job has ended while the loop sleeps after a poll that saw it running
C11_Witness ==
    /\ dpc = "sleep"
    /\ polled = <<StatusRecord("running")>>
    /\ job \in Terminal
    /\ ~Returned

\* C12: in the full workflow the model identifier is written and the test
\* completion issued if and only if the wait ended with succeeded (and no
\* exception ended the run before), after the training file was validated,
\* then uploaded, then a job created; when the final status is failed or
\* cancelled nothing is written and no test call is made.
C12_SavedIffSucceeded ==
    /\ tested <=> saved # ""
    /\ saved # "" => /\ Returned
                     /\ final_status.status = "succeeded"
                     /\ saved = final_status.fine_tuned_model
    /\ (dpc = "exit" /\ Returned /\ final_status.status = "succeeded")
       => (saved # "" /\ tested)
    /\ (Returned /\ final_status.status \in {"failed", "cancelled"})
       => (saved = "" /\ ~tested)
    /\ Returned => job # "none"
    /\ job # "none" => /\ mode = "full"
                       /\ uploads # <<>>
                       /\ uploads[1] = Upload("training", training_file)
    /\ (mode = "full" /\ uploads # <<>>)
       => (train_result # NoResult /\ train_result.valid)

\* the workflow has ended with the identifier written and the test issued,
\* both files having been uploaded
C12_Witness ==
    /\ dpc = "exit"
    /\ saved = StatusRecord("succeeded").fine_tuned_model
    /\ tested
    /\ Len(uploads) = 2
    /\ Len(polled) > 1

(***************************************************************************)
(* Properties of concurrently handled requests                             *)
(***************************************************************************)
\* the parsed value with the id of its position set in every record
Numbered(comps) ==
    IF comps.k = "list" /\ comps.v # <<>>
    THEN PyList([i \in 1..Len(comps.v) |->
                    SetItem(comps.v[i], KeyComponentId, PyStr(ExpectedId(i)))])
    ELSE comps

\* the answer of a handler that runs alone, to the decoded body d (Unbound
\* when the body could not be decoded), having received a from its
\* completion call (NoApiResponse when the call raised)
SoloAnswer(d, a) ==
    LET v == Validate(d)
        p == ParseCompletion(Strip(a.content))
        error(msg) == HttpResponse(500, "false", msg, TRUE, PyList(<<>>), -1)
    IN  IF d = Unbound THEN error("BadRequest")
        ELSE IF v.kind = "reject" THEN BadRequest(v.msg)
        ELSE IF v.kind = "raise" THEN error(v.msg)
        ELSE IF a = NoApiResponse THEN error("APIError")
        ELSE IF a.choices = 0 THEN error("IndexError")
        ELSE IF ~a.hasContent THEN error("AttributeError")
        ELSE IF p.raised THEN error("JSONDecodeError")
        ELSE IF LoopRaises(p.components) THEN error("TypeError")
        ELSE IF ~a.hasUsage THEN error("AttributeError")
        ELSE Success(Numbered(p.components))

\* the locals of the handler of request q
Locals(q) ==
    <<pc[q], data[q], text[q], calls[q], response[q], result_text[q],
      components[q], idx[q], http[q]>>

\* the answer of each finished request is the one its handler would give
\* alone, and a request called the completion once if its body passed the
\* validation and never otherwise
AnswersAreSolo ==
    \A r \in DOMAIN pc :
        /\ calls[r] <= 1
        /\ pc[r] = "done" =>
              /\ http[r] = SoloAnswer(data[r], response[r])
              /\ calls[r] = IF data[r] # Unbound /\ Validate(data[r]).kind = "accept"
                            THEN 1 ELSE 0

\* a step of one handler leaves the locals of every other handler alone
StepsAreLocal ==
    \E r \in DOMAIN pc : \A q \in DOMAIN pc \ {r} : Locals(q)' = Locals(q)

\* C13: under any interleaving of concurrently handled requests each
\* response is determined by the request's own body and the completion it
\* received; no handler writes what another reads, the ids restart at
\* comp_001 in every response, and each validated request issues exactly
\* one completion call.
C13_RequestsAreIndependent == []AnswersAreSolo /\ [][StepsAreLocal]_vars

\* two requests are in their id loops at once, each having numbered its
\* first record, and the first to finish was answered comp_001, comp_002
C13_Witness ==
    /\ pc[1] = "assign" /\ idx[1] = 1
    /\ pc[2] = "done" /\ http[2].status = 200 /\ http[2].total = 2
    /\ GetItem(components[1].v[1], KeyComponentId) = PyStr(ExpectedId(1))
    /\ GetItem(http[2].components.v[1], KeyComponentId) = PyStr(ExpectedId(1))

(***************************************************************************)
(* Properties of the labelling                                             *)
(***************************************************************************)
TypeNames == {COMPONENT_TYPES[i].type : i \in 1..TypeCount}

\* the place of a label in the order boilerplate, definition,
\* study_section, drug_info, safety, procedure
Place(label) == CHOOSE i \in 1..TypeCount : COMPONENT_TYPES[i].type = label

\* kw occurs in t, the case of t's letters ignored
OccursIgnoringCase(kw, t) ==
    \E i \in 0..(Len(t) - Len(kw)) : \A j \in 1..Len(kw) : LowerChar(t[i + j]) = kw[j]

\* how many keywords of the type at place i occur in t
Hits(i, t) ==
    Cardinality({j \in 1..Len(COMPONENT_TYPES[i].keywords) :
                    OccursIgnoringCase(COMPONENT_TYPES[i].keywords[j], t)})

Classified == ppc \in {"estimate", "labelled"}

\* C14: classify_text returns one of the six labels: study_section when no
\* keyword of any type occurs in the span, otherwise the type with the most
\* keywords occurring in it, letter case ignored, and of several such types
\* the first in the order of the taxonomy
C14_FirstTypeWithMostKeywords ==
    Classified =>
        /\ comp_type \in TypeNames
        /\ IF \A i \in 1..TypeCount : Hits(i, para) = 0
           THEN comp_type = "study_section"
           ELSE LET k == Place(comp_type)
                IN  /\ \A i \in 1..TypeCount : Hits(i, para) <= Hits(k, para)
                    /\ \A i \in 1..TypeCount : i < k => Hits(i, para) < Hits(k, para)

\* a span with a capital letter in which two types have one keyword each
C14_Witness ==
    /\ Classified
    /\ comp_type = "drug_info"
    /\ Hits(Place("drug_info"), para) = 1
    /\ Hits(Place("safety"), para) = 1
    /\ para # Lower(para)

ReuseEstimated == ppc = "labelled"

\* C15: estimate_reuse_potential gives high for boilerplate; for a
\* definition high when the text has at most 200 characters and medium when
\* it has more; medium for every other label; and never low
C15_ReusePotentialTable ==
    ReuseEstimated =>
        /\ reuse_potential \in {"high", "medium"}
        /\ comp_type = "boilerplate" => reuse_potential = "high"
        /\ comp_type = "definition" =>
              (reuse_potential = "high" <=> Len(para) <= 200)
        /\ comp_type \notin {"boilerplate", "definition"} => reuse_potential = "medium"

\* a definition of exactly 200 characters
C15_Witness ==
    /\ ReuseEstimated
    /\ comp_type = "definition"
    /\ Len(para) = 200
    /\ reuse_potential = "high"

(***************************************************************************)
(* Properties of the reading of the CSV file                               *)
(***************************************************************************)
CandidateTexts(r) == {Get(r, c, <<>>) : c \in TextColumns}

\* the one row of the file has been read
RowRead == ppc \in {"read", "returned"} /\ rows = <<>>

Skipped == RowRead /\ examples = <<>>

\* C17: the text of a row is the longest of its columns transcription,
\* description and text; the row is skipped exactly when that text has
\* fewer than 100 characters, so a row one of whose columns holds at least
\* 100 characters is never skipped
C17_LongestColumnDecides ==
    RowRead =>
        /\ row_text \in CandidateTexts(row)
        /\ \A t \in CandidateTexts(row) : Len(t) <= Len(row_text)
        /\ Skipped <=> Len(row_text) < 100
        /\ (\E t \in CandidateTexts(row) : Len(t) >= 100) => ~Skipped

(***************************************************************************)
(* Properties of the split                                                 *)
(***************************************************************************)
SplitDone == ppc = "save"

Places(l) == {l[i].place : i \in 1..Len(l)}

\* floor(n * ratio) for the shuffled pool and a ratio of 0 to 1
FloorOfProduct == (Len(valid_examples) * train_split) \div 100

\* train and val are a first part and the rest of the shuffled pool: no
\* example instance is in both, each is in exactly one, the sizes add up
IsPartition ==
    /\ train \o val = valid_examples
    /\ Places(train) \cap Places(val) = {}
    /\ Places(train) \cup Places(val) = Places(valid_examples)
    /\ Len(train) + Len(val) = Len(valid_examples)

HundredAtDefault ==
    (Len(valid_examples) = 100 /\ train_split = 80) => (Len(train) = 80 /\ Len(val) = 20)

====
